---- MODULE Spec2Model ----
(***************************************************************************)
(* State-machine model of xposter's watch loop (src/xposter/watcher.py):   *)
(* the persisted schedule store, the scheduler task, the debounced watcher *)
(* task, and the publish / finalize path of one job.                       *)
(*                                                                         *)
(* Time is a discrete clock; one tick of `now` stands for 30 seconds, so   *)
(* the default debounce window of 30 s is one tick.  A job file is named   *)
(* by a path; paths are integers and their integer order stands for the    *)
(* string order of the path names.  A path is created once by the user,    *)
(* and the publish_at written in a job file does not change afterwards;    *)
(* whether the file parses may change while it waits in the queue.         *)
(* The process stops only while both tasks are suspended, or by an         *)
(* exception that leaves a handler.                                        *)
(*                                                                         *)
(* All handlers are atomic actions: process_new_file and process_scheduled *)
(* are coroutines whose bodies contain no suspension point, so asyncio     *)
(* never runs the other task inside them.                                  *)
(*                                                                         *)
(* Besides the watch loop (Spec) the module holds the schedule store alone *)
(* (SpecStore), the watcher with the history of its passes (SpecDebounce), *)
(* the polling loop of src/xposter/cli.py (SpecPoll), the token store of   *)
(* src/xposter/auth.py (SpecAuth) and one post_job call taken step by      *)
(* step, with its requests to the X API (SpecPost).  In the last two the   *)
(* clock counts seconds.  SpecRestart is the watch loop with a process     *)
(* that may be killed inside pop_ready_jobs, SpecTasks takes the two tasks *)
(* step by step on the event loop, and SpecQueue is the folder-per-post    *)
(* layout of src/xposter/queue.py and src/xposter/models.py.               *)
(***************************************************************************)
EXTENDS Integers, Sequences, FiniteSets, TLC

\* ------------------------------------------------------------- bounds
MaxTime == 3
NumStorePaths == 3
\* Seconds one post_job call may take, and the images of a job.
MaxClock == 2
NumImages == 2
NumFolders == 2

\* ---------------------------------------------------------- constants
\* debounce_seconds (30.0 s) in ticks of 30 s.
debounce_seconds == 1
\* Python's None for an absent publish_at / an unset time; real times are >= 1.
NoTime == 0
\* TOKEN_EXPIRY_SKEW, in seconds.
TOKEN_EXPIRY_SKEW == 60

\* The job files of the model: two paths, 1 sorting before 2.
Paths == {1, 2}
Times == 1..MaxTime

\* Outcomes of one post_job call, decided by the environment (assets on
\* disk, token file, X API).
PostOutcomes == {"sent", "asset_err", "auth_err", "upload_err", "tweet_err"}

VARIABLES
    now,              \* the wall clock read by now_utc()
    file,             \* file[p]: the job file p: where it is and what it holds
    scheduleFile,     \* the persisted schedule (JSON list of {path, publish_at})
    proc,             \* "stopped" | "running" | "crashed": the watch_loop process
    wpc,              \* watcher position: "outer" | "inner" | "sleep"
    pending_files,    \* watcher.pending_files
    last_change_time, \* watcher.last_change_time
    outerChanges,     \* changes collected by the outer awatch, not yet yielded
    innerChanges,     \* changes collected by the inner awatch, not yet yielded
    tweets,           \* history: create_tweet calls per job
    early,            \* history: jobs handed to post_job before their publish_at
    seen,             \* history: jobs the loop has picked up
    last,             \* history: the last handler that ran and what it did
    burst,            \* history: the watcher's passes against the events it got
    clock,            \* the wall clock of one post_job call, in seconds
    tokenFile,        \* data/tokens.json
    job,              \* the job post_job was called for
    ppc,              \* post_job position: "validate" | "token" | "upload" | "done" | "raised"
    client,           \* XClient.access_token of the call
    media_ids,        \* post_job.media_ids
    placed,           \* where post_job left the job file, and its result record
    hist,             \* history: the calls post_job made
    folders,          \* folder layout: the post folders of data/ and where they are
    scanned,          \* folder layout: what the last scan_queue call returned
    due,              \* folder layout: the due jobs not yet handled in this cycle
    qpc,              \* folder layout: position in the cycle and in move_post
    tasks             \* the two tasks of watch_loop on the event loop, step by step

\* The variables of the watch loop, and those of one post_job call.
loopVars == <<now, file, scheduleFile, proc, wpc, pending_files, last_change_time,
              outerChanges, innerChanges, tweets, early, seen, last>>

postVars == <<clock, tokenFile, job, ppc, client, media_ids, placed, hist>>

queueVars == <<folders, scanned, due, qpc>>

vars == <<loopVars, burst, postVars, queueVars, tasks>>

\* ------------------------------------------------------ schedule store

\* datetime.isoformat(): the persisted text of an instant.
isoformat(t) == [iso |-> t]

\* utils.parse_iso_datetime on text written by isoformat.
parse_iso_datetime(s) == s.iso

\* ScheduleEntry(path, publish_at)
ScheduleEntry(path, publish_at) == [path |-> path, publish_at |-> publish_at]

\* ScheduleEntry.to_dict
to_dict(e) == [path |-> e.path, publish_at |-> isoformat(e.publish_at)]

\* ScheduleEntry.from_dict
from_dict(d) == ScheduleEntry(d.path, parse_iso_datetime(d.publish_at))

\* A schedule file read_json or from_dict raises on: here a file whose
\* write was cut short, which holds an item without a time.
TornFile == <<[path |-> 0, publish_at |-> [iso |-> NoTime]]>>

Loadable(sf) == \A i \in 1..Len(sf) : sf[i].publish_at.iso # NoTime

\* load_schedule: the entries of the persisted list, in file order; no
\* entries when the file cannot be loaded.
load_schedule(sf) ==
    IF Loadable(sf) THEN [i \in 1..Len(sf) |-> from_dict(sf[i])] ELSE << >>

\* list.sort(key=publish_at): Python's sort is stable, so an element is put
\* after every element whose key is not larger.
RECURSIVE InsertByTime(_, _)
InsertByTime(sorted, e) ==
    IF sorted = << >> THEN <<e>>
    ELSE IF Head(sorted).publish_at <= e.publish_at
         THEN <<Head(sorted)>> \o InsertByTime(Tail(sorted), e)
         ELSE <<e>> \o sorted

RECURSIVE SortByTime(_)
SortByTime(entries) ==
    IF entries = << >> THEN << >>
    ELSE InsertByTime(SortByTime(SubSeq(entries, 1, Len(entries) - 1)),
                      entries[Len(entries)])

save_schedule_unsorted(entries) == [i \in 1..Len(entries) |-> to_dict(entries[i])]

\* save_schedule: sort by publish_at, write the dicts.
save_schedule(entries) ==
    [i \in 1..Len(SortByTime(entries)) |-> to_dict(SortByTime(entries)[i])]

\* [e for e in entries if e.path != str(job_path)]
WithoutPath(entries, job_path) == SelectSeq(entries, LAMBDA e : e.path # job_path)

add_to_schedule_append(sf, job_path, publish_at) ==
    save_schedule(Append(load_schedule(sf), ScheduleEntry(job_path, publish_at)))

\* add_to_schedule: drop the path's entries, append the new one, save.
add_to_schedule(sf, job_path, publish_at) ==
    save_schedule(Append(WithoutPath(load_schedule(sf), job_path),
                         ScheduleEntry(job_path, publish_at)))

\* remove_from_schedule
remove_from_schedule(sf, job_path) ==
    save_schedule(WithoutPath(load_schedule(sf), job_path))

\* next_scheduled_time: the first entry's time, None when there is none.
next_scheduled_time(sf) ==
    IF load_schedule(sf) = << >> THEN NoTime
    ELSE load_schedule(sf)[1].publish_at

\* [e for e in entries if e.publish_at <= now]
ReadyAt(entries, t) == SelectSeq(entries, LAMBDA e : e.publish_at <= t)

\* [e for e in entries if e.publish_at > now]
RemainingAt(entries, t) == SelectSeq(entries, LAMBDA e : e.publish_at > t)

\* [Path(e.path) for e in entries]
PathsOf(entries) == [i \in 1..Len(entries) |-> entries[i].path]

pop_ready_jobs_strict(sf, t) ==
    [ready |-> PathsOf(SelectSeq(load_schedule(sf), LAMBDA e : e.publish_at < t)),
     file  |-> save_schedule(RemainingAt(load_schedule(sf), t))]

pop_ready_jobs_all(sf, t) ==
    [ready |-> PathsOf(load_schedule(sf)),
     file  |-> save_schedule(<< >>)]

\* pop_ready_jobs at time t: the ready paths and the rewritten file.
pop_ready_jobs(sf, t) ==
    [ready |-> PathsOf(ReadyAt(load_schedule(sf), t)),
     file  |-> save_schedule(RemainingAt(load_schedule(sf), t))]

\* ------------------------------------------------------ files and jobs

\* A path that holds no job file (never created).
NoFile == [loc |-> "none", publish_at |-> NoTime, broken |-> FALSE, result |-> "none"]

\* path.exists(): the job file is in the queue directory.
exists(f) == f.loc = "queue"

\* parse_job_file: (job, None) or (None, error).  Reading, validating and
\* image discovery raise for a file whose content or image set is not valid.
parse_job_file(f) ==
    IF f.broken THEN [job |-> [publish_at |-> NoTime], error |-> TRUE]
    ELSE [job |-> [publish_at |-> f.publish_at], error |-> FALSE]

\* move_with_result(job_path, dest, result): the job file leaves queue/ for
\* the destination root and its result record is written beside it.
move_with_result(f, dest, status) == [f EXCEPT !.loc = dest, !.result = status]

\* The handlers thread a record m through their statements:
\*   file, sched : the files and the schedule file they read and write
\*   tweets, early, seen : the histories they extend
\*   exc  : an exception is propagating (nothing further runs)
\*   res  : per path, what the handler did with it
\*   del  : a file left the queue directory (a filesystem change)
NoRes == [p \in Paths |-> "none"]

Machine == [file |-> file, sched |-> scheduleFile, tweets |-> tweets,
            early |-> early, seen |-> seen, exc |-> FALSE,
            res |-> NoRes, del |-> FALSE]

Finalize(m, p, dest, status, r) ==
    [m EXCEPT !.file[p] = move_with_result(m.file[p], dest, status),
              !.res[p] = r, !.del = TRUE]

CountTweet(n) == IF n < 2 THEN n + 1 ELSE n

\* post_job(job, job_path, ...) at time t, with the environment's outcome:
\*   asset_err  : validate_job_assets returned errors
\*   auth_err   : load_settings / ensure_access_token raised (not caught here)
\*   upload_err : an upload raised XApiError, create_tweet is not reached
\*   tweet_err  : create_tweet was called and raised XApiError
\*   sent       : create_tweet returned
post_job(m, p, out, t) ==
    LET m1 == [m EXCEPT !.early = IF t < m.file[p].publish_at THEN @ \cup {p} ELSE @]
    IN  CASE out = "asset_err"  -> Finalize(m1, p, "failed", "error", "asset_err")
          [] out = "auth_err"   -> [m1 EXCEPT !.exc = TRUE, !.res[p] = "auth_err"]
          [] out = "upload_err" -> Finalize(m1, p, "failed", "error", "upload_err")
          [] out = "tweet_err"  ->
                Finalize([m1 EXCEPT !.tweets[p] = CountTweet(@)],
                         p, "failed", "error", "tweet_err")
          [] out = "sent"       ->
                Finalize([m1 EXCEPT !.tweets[p] = CountTweet(@)],
                         p, "sent", "success", "sent")

process_new_file_always_schedule(m, p, out, t) ==
    IF ~exists(m.file[p]) THEN [m EXCEPT !.res[p] = "skip"]
    ELSE LET parsed == parse_job_file(m.file[p])
             m1 == [m EXCEPT !.seen = @ \cup {p}]
         IN  IF parsed.error
             THEN Finalize(m1, p, "failed", "error", "invalid")
             ELSE IF parsed.job.publish_at # NoTime
                  THEN [m1 EXCEPT
                          !.sched = add_to_schedule(@, p, parsed.job.publish_at),
                          !.res[p] = "scheduled"]
                  ELSE post_job(m1, p, out, t)

\* process_new_file(path, ...) at time t.
process_new_file(m, p, out, t) ==
    IF ~exists(m.file[p]) THEN [m EXCEPT !.res[p] = "skip"]
    ELSE LET parsed == parse_job_file(m.file[p])
             m1 == [m EXCEPT !.seen = @ \cup {p}]
         IN  IF parsed.error
             THEN Finalize(m1, p, "failed", "error", "invalid")
             ELSE IF parsed.job.publish_at # NoTime /\ parsed.job.publish_at > t
                  THEN [m1 EXCEPT
                          !.sched = add_to_schedule(@, p, parsed.job.publish_at),
                          !.res[p] = "scheduled"]
                  ELSE post_job(m1, p, out, t)

\* for path in ...: await process_new_file(path, ...): stops at an exception.
RECURSIVE ProcessFiles(_, _, _, _)
ProcessFiles(m, paths, outs, t) ==
    IF paths = << >> \/ m.exc THEN m
    ELSE ProcessFiles(process_new_file(m, Head(paths), outs[Head(paths)], t),
                      Tail(paths), outs, t)

scheduled_job_no_exists_check(m, p, out, t) ==
    LET parsed == parse_job_file(m.file[p])
    IN  IF parsed.error THEN [m EXCEPT !.res[p] = "parse_skip"]
        ELSE post_job(m, p, out, t)

\* The body of process_scheduled's loop for one ready path.
scheduled_job(m, p, out, t) ==
    IF ~exists(m.file[p]) THEN [m EXCEPT !.res[p] = "skip"]
    ELSE LET parsed == parse_job_file(m.file[p])
         IN  IF parsed.error THEN [m EXCEPT !.res[p] = "parse_skip"]
             ELSE post_job(m, p, out, t)

RECURSIVE ScheduledLoop(_, _, _, _)
ScheduledLoop(m, ready, outs, t) ==
    IF ready = << >> \/ m.exc THEN m
    ELSE ScheduledLoop(scheduled_job(m, Head(ready), outs[Head(ready)], t),
                       Tail(ready), outs, t)

\* process_scheduled at time t: pop the ready paths, then publish each.
process_scheduled(m, outs, t) ==
    LET popped == pop_ready_jobs(m.sched, t)
    IN  ScheduledLoop([m EXCEPT !.sched = popped.file], popped.ready, outs, t)

\* ------------------------------------------- tokens (src/xposter/auth.py)
\* In the token store and in one post_job call the clock counts seconds.

\* A JSON object is a function on the keys it has.  Every value stored under
\* a key is truthy, so `d.get(k)` is falsy exactly when d has no key k, and
\* the empty object stands for both {} and None (`not tokens`).
Empty == [k \in {} |-> 0]

Field(k, v) == [x \in {k} |-> v]

Opt(present, k, v) == IF present THEN Field(k, v) ELSE Empty

Has(d, k) == k \in DOMAIN d

\* The text stored under expires_at: an ISO timestamp of second `at`, or a
\* text datetime.fromisoformat rejects.
ExpiresAt(at) == [valid |-> TRUE, at |-> at]

BadExpiresAt == [valid |-> FALSE, at |-> 0]

\* The expires_at values of the token files, around clock + 60.
ExpiresAts == {60, 61, 62}

\* expires_in stored by an earlier login, and the values a refresh returns.
OldExpiresIn == 90

ExpiresIns == {30, 120}

TokenSets ==
    {Opt(a, "access_token", "A1") @@ Opt(r, "refresh_token", "R1")
        @@ Opt(i, "expires_in", OldExpiresIn) @@ e :
        a \in BOOLEAN, r \in BOOLEAN, i \in BOOLEAN,
        e \in {Empty, Field("expires_at", BadExpiresAt)}
                \cup {Field("expires_at", ExpiresAt(x)) : x \in ExpiresAts}}

NoTokenFile == [state |-> "missing", data |-> Empty]

TokenFiles ==
    {NoTokenFile, [state |-> "corrupt", data |-> Empty]}
        \cup {[state |-> "ok", data |-> d] : d \in TokenSets}

\* What the token endpoint answers to a refresh: an error (raise_for_status
\* raises, or the request fails), or a JSON object.
RefreshFailed == [ok |-> FALSE, body |-> Empty]

RefreshResults ==
    {RefreshFailed}
        \cup {[ok |-> TRUE,
               body |-> Opt(a, "access_token", "A2") @@ Opt(r, "refresh_token", "R2")
                            @@ Opt(e # 0, "expires_in", e)] :
              a \in BOOLEAN, r \in BOOLEAN, e \in {0} \cup ExpiresIns}

load_tokens(tf) == IF tf.state = "ok" THEN tf.data ELSE Empty

tokens_expired_undated(tokens, t) ==
    IF ~Has(tokens, "expires_at") THEN TRUE
    ELSE IF ~tokens.expires_at.valid THEN TRUE
    ELSE tokens.expires_at.at <= t + TOKEN_EXPIRY_SKEW

tokens_expired_strict(tokens, t) ==
    IF ~Has(tokens, "expires_at") THEN FALSE
    ELSE IF ~tokens.expires_at.valid THEN FALSE
    ELSE tokens.expires_at.at < t + TOKEN_EXPIRY_SKEW

tokens_expired(tokens, t) ==
    IF ~Has(tokens, "expires_at") THEN FALSE
    ELSE IF ~tokens.expires_at.valid THEN FALSE
    ELSE tokens.expires_at.at <= t + TOKEN_EXPIRY_SKEW

save_tokens_replace(token_data, existing, t) ==
    IF Has(token_data, "expires_in")
    THEN Field("expires_at", ExpiresAt(t + token_data.expires_in)) @@ token_data
    ELSE token_data

\* save_tokens at second t: the token set it writes and returns.
save_tokens(token_data, existing, t) ==
    LET tokens == token_data @@ existing
    IN  IF Has(tokens, "expires_in")
        THEN Field("expires_at", ExpiresAt(t + tokens.expires_in)) @@ tokens
        ELSE tokens

\* What one ensure_access_token call does: whether it returns, the error it
\* raises, the token it returns, the token file it leaves, whether it called
\* refresh_tokens and whether it wrote the token file.
AuthError(error, tf, refreshed) ==
    [ok |-> FALSE, error |-> error, access_token |-> "", file |-> tf,
     refreshed |-> refreshed, wrote |-> FALSE]

ReturnToken_unchecked(tokens, tf, refreshed) ==
    [ok |-> TRUE, error |-> "",
     access_token |-> IF Has(tokens, "access_token") THEN tokens.access_token ELSE "",
     file |-> tf, refreshed |-> refreshed, wrote |-> refreshed]

\* `access_token = tokens.get("access_token")` and what follows it.
ReturnToken(tokens, tf, refreshed) ==
    IF ~Has(tokens, "access_token")
    THEN [ok |-> FALSE, error |-> "no_access_token", access_token |-> "", file |-> tf,
          refreshed |-> refreshed, wrote |-> refreshed]
    ELSE [ok |-> TRUE, error |-> "", access_token |-> tokens.access_token, file |-> tf,
          refreshed |-> refreshed, wrote |-> refreshed]

\* ensure_access_token at second t, the token endpoint answering r.
ensure_access_token(tf, t, r) ==
    LET tokens == load_tokens(tf)
    IN  IF DOMAIN tokens = {} THEN AuthError("no_tokens", tf, FALSE)
        ELSE IF tokens_expired(tokens, t)
        THEN IF ~Has(tokens, "refresh_token")
             THEN AuthError("no_refresh_token", tf, FALSE)
             ELSE IF ~r.ok THEN AuthError("refresh_failed", tf, TRUE)
             ELSE ReturnToken(save_tokens(r.body, tokens, t),
                              [state |-> "ok", data |-> save_tokens(r.body, tokens, t)],
                              TRUE)
        ELSE ReturnToken(tokens, tf, FALSE)

\* ------------------------------- one post_job call (src/xposter/watcher.py)

\* validate_job_assets reports every asset problem of the job.
AssetErrors == {"missing a.png", "unsupported b.gif"}

Jobs ==
    {j \in [asset_errors : SUBSET AssetErrors, images : 0..NumImages, text : BOOLEAN] :
        j.asset_errors # {} => j.images > 0}

NoJob == [asset_errors |-> {}, images |-> 0, text |-> FALSE]

\* The identifier the upload of image i carries under key k.
NoId == << >>

IdOf(i, k) == <<i, k>>

\* The JSON bodies of an upload response for image i: the identifier under
\* all three keys, under the last two, under data.id alone, or nowhere.
UploadBodies(i) ==
    {Field("media_id", IdOf(i, "media_id"))
        @@ Field("media_id_string", IdOf(i, "media_id_string"))
        @@ Field("data", Field("id", IdOf(i, "data.id"))),
     Field("media_id_string", IdOf(i, "media_id_string"))
        @@ Field("data", Field("id", IdOf(i, "data.id"))),
     Field("data", Field("id", IdOf(i, "data.id"))),
     Field("data", Empty),
     Empty}

\* HTTP status codes the X API answers with.
StatusCodes == {200, 302, 403}

\* What happens to the upload of image i: no media type can be guessed from
\* its name, the request times out, or a response arrives.
UploadOutcomes(i) ==
    {[kind |-> "no_type", status |-> 0, body |-> Empty],
     [kind |-> "timeout", status |-> 0, body |-> Empty],
     [kind |-> "http", status |-> 403, body |-> Empty],
     [kind |-> "http", status |-> 302, body |-> Field("media_id", IdOf(i, "media_id"))]}
        \cup {[kind |-> "http", status |-> 200, body |-> b] : b \in UploadBodies(i)}

TweetOutcomes ==
    {[kind |-> "timeout", status |-> 0, body |-> Empty]}
        \cup {[kind |-> "http", status |-> c, body |-> Empty] : c \in StatusCodes}

\* XClient._handle_response: raises XApiError(status_code, payload) or
\* returns the JSON body.
handle_response(resp) ==
    IF resp.status >= 400
    THEN [raised |-> TRUE, status_code |-> resp.status, payload |-> "raw", json |-> Empty]
    ELSE [raised |-> FALSE, status_code |-> 0, payload |-> "", json |-> resp.body]

\* media_id or media_id_string or data.id
media_id(upload_response) ==
    IF Has(upload_response, "media_id") THEN upload_response.media_id
    ELSE IF Has(upload_response, "media_id_string") THEN upload_response.media_id_string
    ELSE IF Has(upload_response, "data") /\ Has(upload_response.data, "id")
         THEN upload_response.data.id
    ELSE NoId

invalid_assets_never(asset_errors) == FALSE

\* `if asset_errors:`
invalid_assets(asset_errors) == asset_errors # {}

\* Where the job file is and the result record written next to it.
InQueue ==
    [dir |-> "queue", status |-> "none", message |-> "", status_code |-> 0,
     payload |-> "", details |-> {}]

Failed(message, status_code, payload, details) ==
    [dir |-> "failed", status |-> "error", message |-> message,
     status_code |-> status_code, payload |-> payload, details |-> details]

Sent ==
    [dir |-> "sent", status |-> "success", message |-> "", status_code |-> 0,
     payload |-> "", details |-> {}]

NoAuth ==
    [called |-> FALSE, at |-> 0, before |-> NoTokenFile, resp |-> RefreshFailed,
     ret |-> AuthError("", NoTokenFile, FALSE)]

NoHist == [auth |-> NoAuth, uploads |-> << >>, tweets |-> << >>]

\* An outbound request of the X API as the history keeps it: the outcome u,
\* the bearer token, the media_ids handed over, and the seconds the stored
\* token set gives the token until its expires_at (when it has a valid one).
ApiCall(u, ids) ==
    [u |-> u, token |-> client, ids |-> ids,
     dated |-> /\ Has(tokenFile.data, "expires_at")
               /\ tokenFile.data.expires_at.valid,
     left |-> IF Has(tokenFile.data, "expires_at")
              THEN tokenFile.data.expires_at.at - clock ELSE 0]

PostIdle ==
    /\ clock = 0
    /\ tokenFile = NoTokenFile
    /\ job = NoJob
    /\ ppc = "idle"
    /\ client = ""
    /\ media_ids = << >>
    /\ placed = InQueue
    /\ hist = NoHist

\* ------------------------------------------- the folder-per-post layout
\* data/queue/<date>/<post>/ holds post.json and the image files.  A text
\* is modelled by its type and length, a time string by the time it denotes.

MAX_TWEET_LENGTH == 280
MAX_IMAGES == 4
VALID_SLOTS == {"morning", "day", "night"}

\* Config.default_times, as the times the strings denote.
default_times == [morning |-> 1, day |-> 2, night |-> 3]

get_time_for_slot(slot) == default_times[slot]

Folders == 1..NumFolders

\* Files of a post folder besides post.json.
ImageFile(num, ext) == [num |-> num, ext |-> ext]

FileSets ==
    {{},
     {ImageFile(1, "png")},
     {ImageFile(n, "png") : n \in 1..MAX_IMAGES},
     {ImageFile(n, "png") : n \in 1..MAX_IMAGES} \cup {ImageFile(1, "jpg")},
     {ImageFile(n, "png") : n \in 1..MAX_IMAGES} \cup {ImageFile(5, "png"), ImageFile(1, "txt")}}

\* IMAGE_PATTERN: 01..04 with one of the four extensions.
IMAGE_PATTERN(f) == f.num \in 1..4 /\ f.ext \in {"png", "jpg", "jpeg", "webp"}

discover_images(files) == {f \in files : IMAGE_PATTERN(f)}

\* The values found under "text", "publish_at" and "labels" of post.json.
Str(len) == [type |-> "str", len |-> len]
NotStr == [type |-> "int", len |-> 0]
TextValues == {Str(MAX_TWEET_LENGTH), Str(MAX_TWEET_LENGTH + 1), NotStr}

NoTimeStr == [kind |-> "none", t |-> NoTime]
TimeStr(t) == [kind |-> "time", t |-> t]
BadTimeStr == [kind |-> "bad", t |-> NoTime]

List(items) == [type |-> "list", items |-> items]
NotList == [type |-> "int", items |-> << >>]
LabelValues == {List(<< >>), List(<<"morning">>), List(<<"noon">>), NotList}

\* What a post folder holds: no post.json, a post.json that is not JSON, one
\* that is JSON but not an object, or an object; "bad_date" is a post folder
\* under a date folder whose name is not a date.
Entry(kind, text, publish_at, labels, files) ==
    [kind |-> kind, text |-> text, publish_at |-> publish_at, labels |-> labels,
     files |-> files]

Plain(kind) == Entry(kind, Str(0), NoTimeStr, List(<< >>), {})

Objects ==
    {Entry("object", text, publish_at, labels, files) :
        text \in TextValues, publish_at \in {NoTimeStr, TimeStr(1), BadTimeStr},
        labels \in LabelValues, files \in FileSets}

Entries ==
    {Plain("bad_date"), Plain("no_post_json"), Plain("invalid_json"), Plain("not_object")}
        \cup Objects

\* Well-formed posts, one per publish time.
GoodEntries ==
    {Entry("object", Str(MAX_TWEET_LENGTH), publish_at, List(<<"day">>), {ImageFile(1, "png")}) :
        publish_at \in {NoTimeStr, TimeStr(MaxTime)}}

parse_scheduled_datetime(time_str) == time_str.t

\* PostJob.validate: the list of errors.
validate_no_text_check(j) ==
    (IF j.labels.items = << >> THEN <<"labels">>
     ELSE IF j.labels.items[1] \notin VALID_SLOTS THEN <<"slot">> ELSE << >>)
    \o (IF Cardinality(j.images) > MAX_IMAGES THEN <<"images">> ELSE << >>)

validate_no_image_check(j) ==
    (IF j.text.len > MAX_TWEET_LENGTH THEN <<"text">> ELSE << >>)
    \o (IF j.labels.items = << >> THEN <<"labels">>
        ELSE IF j.labels.items[1] \notin VALID_SLOTS THEN <<"slot">> ELSE << >>)

validate(j) ==
    (IF j.text.len > MAX_TWEET_LENGTH THEN <<"text">> ELSE << >>)
    \o (IF j.labels.items = << >> THEN <<"labels">>
        ELSE IF j.labels.items[1] \notin VALID_SLOTS THEN <<"slot">> ELSE << >>)
    \o (IF Cardinality(j.images) > MAX_IMAGES THEN <<"images">> ELSE << >>)

PostJob(folder, text, labels, images, scheduled_dt) ==
    [folder |-> folder, text |-> text, labels |-> labels, images |-> images,
     scheduled_dt |-> scheduled_dt]

\* What scan_queue does with one post folder: it raises, or appends to
\* errors, or appends to jobs.
Raises == [raised |-> TRUE, errors |-> << >>, jobs |-> << >>]
Errors(folder, errs) ==
    [raised |-> FALSE, errors |-> [k \in 1..Len(errs) |-> [path |-> folder, error |-> errs[k]]],
     jobs |-> << >>]
Job(j) == [raised |-> FALSE, errors |-> << >>, jobs |-> <<j>>]

ScanPost(folder, e) ==
    IF e.kind = "bad_date" THEN Errors(folder, <<"invalid date folder name">>)
    ELSE IF e.kind = "no_post_json" THEN Errors(folder, <<"missing post.json">>)
    ELSE IF e.kind = "invalid_json" THEN Errors(folder, <<"invalid JSON">>)
    ELSE IF e.kind = "not_object" THEN Raises               \* data.get
    ELSE IF e.labels.type = "list" /\ e.labels.items = << >>
         THEN Errors(folder, <<"labels">>)
    ELSE IF e.labels.type # "list" THEN Raises               \* labels[0]
    ELSE IF e.labels.items[1] \notin VALID_SLOTS THEN Errors(folder, <<"slot">>)
    ELSE LET time_str == IF e.publish_at.kind # "none" THEN e.publish_at
                         ELSE TimeStr(get_time_for_slot(e.labels.items[1]))
         IN  IF time_str.kind = "bad" THEN Errors(folder, <<"invalid time format">>)
             ELSE LET j == PostJob(folder, e.text, e.labels, discover_images(e.files),
                                   parse_scheduled_datetime(time_str))
                  IN  IF e.text.type # "str" THEN Raises     \* len(self.text)
                      ELSE IF validate(j) # << >> THEN Errors(folder, validate(j))
                      ELSE Job(j)

\* A post folder of data/: its content and the directory it is under, with
\* the error.txt written next to it.
Post(e) == [entry |-> e, loc |-> "queue", error_txt |-> FALSE]

RECURSIVE ScanFrom(_, _, _)
ScanFrom(fs, i, acc) ==
    IF i > NumFolders THEN acc
    ELSE IF fs[i].loc # "queue" THEN ScanFrom(fs, i + 1, acc)
    ELSE LET r == ScanPost(i, fs[i].entry)
         IN  IF r.raised THEN Raises
             ELSE ScanFrom(fs, i + 1, [raised |-> FALSE,
                                       errors |-> acc.errors \o r.errors,
                                       jobs |-> acc.jobs \o r.jobs])

\* scan_queue(data_dir, config) over the post folders in sorted order.
scan_queue_dir(fs) == ScanFrom(fs, 1, [raised |-> FALSE, errors |-> << >>, jobs |-> << >>])

get_due_jobs(jobs, t) == SelectSeq(jobs, LAMBDA j : j.scheduled_dt <= t)

NoScan == [raised |-> FALSE, errors |-> << >>, jobs |-> << >>]
QIdle == [at |-> "idle", folder |-> 0, status |-> "", error_msg |-> FALSE]

QueueIdle ==
    /\ folders = [i \in Folders |-> Post(Plain("no_post_json"))]
    /\ scanned = NoScan
    /\ due = << >>
    /\ qpc = QIdle

\* --------------------------------------------- tasks on the event loop
\* scheduler() and watcher() run on one event loop: a task keeps the thread
\* until it reaches an await that suspends it.  `await process_scheduled`
\* and `await process_new_file` do not suspend: these coroutines contain no
\* await, and post_job, add_to_schedule and pop_ready_jobs are plain
\* functions.

Tasks == {"scheduler", "watcher"}

AwaitPoints_in_post_job == {"await", "post"}

AwaitPoints_in_store == {"await", "add_loaded", "pop_loaded"}

\* Positions at which a task is suspended: asyncio.sleep and awatch.
AwaitPoints == {"await"}

NoTasks ==
    [running |-> "none",
     pc |-> [T \in Tasks |-> "await"],
     entries |-> [T \in Tasks |-> << >>],
     path |-> [T \in Tasks |-> 0],
     t |-> [T \in Tasks |-> NoTime],
     ready |-> << >>,
     sequential |-> << >>]

\* The event loop lets task T take a step.
Runs(T) ==
    \/ tasks.running = T
    \/ tasks.running = "none" /\ tasks.pc[T] \in AwaitPoints

\* Task T has moved to position pos: it keeps the thread unless it awaits.
Moved(m, T, pos) ==
    [m EXCEPT !.pc[T] = pos,
              !.running = IF pos \in AwaitPoints THEN "none"
                          ELSE IF @ = "none" THEN T ELSE @]

\* ------------------------------------------------------------ actions

NoChanges == [added |-> {}, other |-> FALSE]

\* All orders in which a set of paths can be iterated (glob, list(set)).
Orders(S) == {o \in [1..Cardinality(S) -> S] : \A i, j \in 1..Cardinality(S) :
                                                   o[i] = o[j] => i = j}

QueueFiles_none == {}

\* queue_dir.glob("*.json")
QueueFiles == {p \in Paths : exists(file[p])}

\* The environment's outcome for each path a handler may publish.
OutcomesFor(S) == {outs \in [Paths -> PostOutcomes] : \A p \in Paths \ S : outs[p] = "sent"}

Range(s) == {s[i] : i \in 1..Len(s)}

NoBurst == [lastEvent |-> 0, tooSoon |-> FALSE, passes |-> [p \in Paths |-> 0]]

LoopInit ==
    /\ now = 1
    /\ file = [p \in Paths |-> NoFile]
    /\ scheduleFile = << >>
    /\ proc = "stopped"
    /\ wpc = "outer"
    /\ pending_files = {}
    /\ last_change_time = 0
    /\ outerChanges = NoChanges
    /\ innerChanges = NoChanges
    /\ tweets = [p \in Paths |-> 0]
    /\ early = {}
    /\ seen = {}
    /\ last = [op |-> "init", batch |-> {}, res |-> NoRes]

Init == LoopInit /\ burst = NoBurst /\ PostIdle /\ QueueIdle /\ tasks = NoTasks

\* The clock advances.
Tick ==
    /\ now < MaxTime
    /\ now' = now + 1
    /\ UNCHANGED <<file, scheduleFile, proc, wpc, pending_files, last_change_time,
                   outerChanges, innerChanges, tweets, early, seen, last>>

\* A filesystem change in queue/ reaches every awatch that is collecting:
\* the outer one for as long as the watcher task lives, the inner one while
\* the watcher is suspended in it.
Collect(ch, added, running, collecting) ==
    IF running /\ collecting
    THEN [added |-> ch.added \cup added, other |-> ch.other \/ added = {}]
    ELSE ch

\* The user drops a new job file into queue/ (Change.added).
UserAddFile(p, t, b) ==
    /\ file[p].loc = "none"
    /\ file' = [file EXCEPT ![p] = [loc |-> "queue", publish_at |-> t,
                                    broken |-> b, result |-> "none"]]
    /\ outerChanges' = Collect(outerChanges, {p}, proc = "running", TRUE)
    /\ innerChanges' = Collect(innerChanges, {p}, proc = "running", wpc = "inner")
    /\ UNCHANGED <<now, scheduleFile, proc, wpc, pending_files, last_change_time,
                   tweets, early, seen, last>>

\* The user rewrites a queued job file or changes its images
\* (Change.modified, or an image file added or deleted): the file may stop
\* to parse; its publish_at stays.
UserModify(p, b) ==
    /\ exists(file[p])
    /\ b \/ ~file[p].broken
    /\ file' = [file EXCEPT ![p].broken = b]
    /\ outerChanges' = Collect(outerChanges, {}, proc = "running", TRUE)
    /\ innerChanges' = Collect(innerChanges, {}, proc = "running", wpc = "inner")
    /\ UNCHANGED <<now, scheduleFile, proc, wpc, pending_files, last_change_time,
                   tweets, early, seen, last>>

\* What a handler leaves behind: the files, the schedule, the histories.
Commit(m, op, batch) ==
    /\ file' = m.file
    /\ scheduleFile' = m.sched
    /\ tweets' = m.tweets
    /\ early' = m.early
    /\ seen' = m.seen
    /\ last' = [op |-> op, batch |-> batch, res |-> m.res]

\* watch_loop up to asyncio.gather: process the files already in queue/,
\* then start the two tasks.  An exception ends the process.
Start ==
    /\ proc \in {"stopped", "crashed"}
    /\ \E order \in Orders(QueueFiles), outs \in OutcomesFor(QueueFiles) :
          LET m == ProcessFiles(Machine, order, outs, now)
          IN  /\ Commit(m, "startup", Range(order))
              /\ proc' = IF m.exc THEN "crashed" ELSE "running"
    /\ wpc' = "outer"
    /\ pending_files' = {}
    /\ last_change_time' = 0
    /\ outerChanges' = NoChanges
    /\ innerChanges' = NoChanges
    /\ UNCHANGED now

\* The process is stopped (Ctrl+C) while both tasks are suspended.
Stop ==
    /\ proc = "running"
    /\ proc' = "stopped"
    /\ wpc' = "outer"
    /\ pending_files' = {}
    /\ last_change_time' = 0
    /\ outerChanges' = NoChanges
    /\ innerChanges' = NoChanges
    /\ UNCHANGED <<now, file, scheduleFile, tweets, early, seen, last>>

\* The in-memory state of the watcher after a handler of either task, given
\* the watcher state w it would have were the process to go on.
AfterHandler(m, w) ==
    /\ proc' = IF m.exc THEN "crashed" ELSE "running"
    /\ wpc' = IF m.exc THEN "outer" ELSE w.wpc
    /\ pending_files' = IF m.exc THEN {} ELSE w.pending
    /\ last_change_time' = IF m.exc THEN 0 ELSE w.lct
    /\ outerChanges' = IF m.exc THEN NoChanges
                       ELSE [w.outer EXCEPT !.other = @ \/ m.del]
    /\ innerChanges' = IF m.exc THEN NoChanges
                       ELSE IF w.wpc = "inner"
                            THEN [w.inner EXCEPT !.other = @ \/ (m.del /\ w.collecting)]
                            ELSE NoChanges

\* scheduler(): one pass of the loop that finds the first entry due.  A pass
\* that finds no entry, or the first entry in the future, only sleeps.
scheduler ==
    /\ proc = "running"
    /\ next_scheduled_time(scheduleFile) # NoTime
    /\ next_scheduled_time(scheduleFile) - now <= 0
    /\ \E outs \in OutcomesFor(Range(pop_ready_jobs(scheduleFile, now).ready)) :
          LET m == process_scheduled(Machine, outs, now)
          IN  /\ Commit(m, "scheduler", Range(pop_ready_jobs(scheduleFile, now).ready))
              /\ AfterHandler(m, [wpc |-> wpc, pending |-> pending_files,
                                  lct |-> last_change_time, outer |-> outerChanges,
                                  inner |-> innerChanges, collecting |-> TRUE])
    /\ UNCHANGED now

\* watcher(): `while pending_files:` entered with pending set pend, last
\* change time lct and outer buffer outer.
DebounceCheck(pend, lct, outer) ==
    IF pend = {}
    THEN /\ wpc' = "outer"
         /\ pending_files' = {}
         /\ last_change_time' = lct
         /\ outerChanges' = outer
         /\ innerChanges' = NoChanges
         /\ UNCHANGED <<file, scheduleFile, proc, tweets, early, seen, last>>
    ELSE IF now - lct >= debounce_seconds
    THEN \E order \in Orders(pend), outs \in OutcomesFor(pend) :
            LET m == ProcessFiles(Machine, order, outs, now)
            IN  /\ Commit(m, "watcher", Range(order))
                /\ AfterHandler(m, [wpc |-> "outer", pending |-> {}, lct |-> lct,
                                    outer |-> outer, inner |-> NoChanges,
                                    collecting |-> FALSE])
    ELSE /\ wpc' = "inner"
         /\ pending_files' = pend
         /\ last_change_time' = lct
         /\ outerChanges' = outer
         /\ innerChanges' = NoChanges
         /\ UNCHANGED <<file, scheduleFile, proc, tweets, early, seen, last>>

\* watcher(): the outer awatch yields the changes it collected.
WatcherOuter ==
    /\ proc = "running"
    /\ wpc = "outer"
    /\ outerChanges # NoChanges
    /\ DebounceCheck(pending_files \cup outerChanges.added,
                     IF outerChanges.added # {} THEN now ELSE last_change_time,
                     NoChanges)
    /\ UNCHANGED now

\* watcher(): the inner awatch yields its first batch, the loop breaks out
\* of it and sleeps one second.
WatcherInner ==
    /\ proc = "running"
    /\ wpc = "inner"
    /\ innerChanges # NoChanges
    /\ wpc' = "sleep"
    /\ pending_files' = pending_files \cup innerChanges.added
    /\ last_change_time' = IF innerChanges.added # {} THEN now ELSE last_change_time
    /\ innerChanges' = NoChanges
    /\ UNCHANGED <<now, file, scheduleFile, proc, outerChanges, tweets, early,
                   seen, last>>

\* watcher(): the one-second sleep ends and the while loop checks again.
WatcherWake ==
    /\ proc = "running"
    /\ wpc = "sleep"
    /\ DebounceCheck(pending_files, last_change_time, outerChanges)
    /\ UNCHANGED now

\* The actions of the watch loop leave the history of the debounce passes,
\* the variables of the single post_job call, the folder layout and the
\* step-by-step tasks alone.
Rest == UNCHANGED <<burst, postVars, queueVars, tasks>>

Next ==
    \/ Tick /\ Rest
    \/ \E p \in Paths, t \in {NoTime} \cup Times, b \in BOOLEAN : UserAddFile(p, t, b) /\ Rest
    \/ \E p \in Paths, b \in BOOLEAN : UserModify(p, b) /\ Rest
    \/ Start /\ Rest
    \/ Stop /\ Rest
    \/ scheduler /\ Rest
    \/ WatcherOuter /\ Rest
    \/ WatcherInner /\ Rest
    \/ WatcherWake /\ Rest

Spec == Init /\ [][Next]_vars

\* ------------------------------------------- the schedule store alone
\* The three mutating operations of the store, called in any order with any
\* arguments, on the schedule file that starts empty.  `last` records the
\* call: its arguments, the file before it, and what it returned.

StorePaths == 1..NumStorePaths

StoreAdd(p, t) ==
    /\ scheduleFile' = add_to_schedule(scheduleFile, p, t)
    /\ last' = [op |-> "add", path |-> p, at |-> t, before |-> scheduleFile,
                ready |-> << >>]
    /\ UNCHANGED <<now, file, proc, wpc, pending_files, last_change_time,
                   outerChanges, innerChanges, tweets, early, seen>>

StoreRemove(p) ==
    /\ scheduleFile' = remove_from_schedule(scheduleFile, p)
    /\ last' = [op |-> "remove", path |-> p, at |-> NoTime, before |-> scheduleFile,
                ready |-> << >>]
    /\ UNCHANGED <<now, file, proc, wpc, pending_files, last_change_time,
                   outerChanges, innerChanges, tweets, early, seen>>

\* pop_ready_jobs called when now_utc() reads t.
StorePop(t) ==
    /\ scheduleFile' = pop_ready_jobs(scheduleFile, t).file
    /\ last' = [op |-> "pop", path |-> 0, at |-> t, before |-> scheduleFile,
                ready |-> pop_ready_jobs(scheduleFile, t).ready]
    /\ UNCHANGED <<now, file, proc, wpc, pending_files, last_change_time,
                   outerChanges, innerChanges, tweets, early, seen>>

StoreNext ==
    \/ \E p \in StorePaths, t \in Times : StoreAdd(p, t) /\ Rest
    \/ \E p \in StorePaths : StoreRemove(p) /\ Rest
    \/ \E t \in Times : StorePop(t) /\ Rest

SpecStore == Init /\ [][StoreNext]_vars

\* ------------------------------------------------- stops and restarts
\* The watch loop with a process that may also be killed inside
\* pop_ready_jobs: while write_json rewrites the schedule file, which leaves
\* the file cut short, or right after it, before any ready job is handled.
\* Job files are valid here.

KillInPop(torn) ==
    /\ proc = "running"
    /\ next_scheduled_time(scheduleFile) # NoTime
    /\ next_scheduled_time(scheduleFile) - now <= 0
    /\ scheduleFile' = IF torn THEN TornFile ELSE pop_ready_jobs(scheduleFile, now).file
    /\ proc' = "stopped"
    /\ wpc' = "outer"
    /\ pending_files' = {}
    /\ last_change_time' = 0
    /\ outerChanges' = NoChanges
    /\ innerChanges' = NoChanges
    /\ UNCHANGED <<now, file, tweets, early, seen, last>>

RestartNext ==
    \/ Tick /\ Rest
    \/ \E p \in Paths, t \in {NoTime} \cup Times : UserAddFile(p, t, FALSE) /\ Rest
    \/ Start /\ Rest
    \/ Stop /\ Rest
    \/ \E torn \in BOOLEAN : KillInPop(torn) /\ Rest
    \/ scheduler /\ Rest
    \/ WatcherOuter /\ Rest
    \/ WatcherInner /\ Rest
    \/ WatcherWake /\ Rest

SpecRestart == Init /\ [][RestartNext]_vars

\* ------------------------------------------- the watcher and its events
\* The watch loop with the history of the watcher's passes: when the last
\* job-file event reached the running process, whether a pass started
\* sooner than debounce_seconds after it, and how many passes handled each
\* file.  Job files are valid here and are only touched afterwards.

\* The history after a step of the watcher entered with pending set pend.
\* The step was a pass over pend when it left the `while pending_files:`
\* loop with files pending; `last` then tells what each file got.
AfterStep(pend) ==
    IF pend # {} /\ wpc' = "outer"
    THEN [burst EXCEPT
            !.tooSoon = @ \/ now - burst.lastEvent < debounce_seconds,
            !.passes = [p \in Paths |->
                           IF last'.res[p] \in {"none", "skip"} THEN @[p]
                           ELSE IF @[p] < 2 THEN @[p] + 1 ELSE 2]]
    ELSE burst

DbAddFile(p, t) ==
    /\ UserAddFile(p, t, FALSE)
    /\ burst' = IF proc = "running" THEN [burst EXCEPT !.lastEvent = now] ELSE burst
    /\ UNCHANGED <<postVars, queueVars, tasks>>

DbStart ==
    /\ Start
    /\ burst' = NoBurst
    /\ UNCHANGED <<postVars, queueVars, tasks>>

DbWatcherOuter ==
    /\ WatcherOuter
    /\ burst' = AfterStep(pending_files \cup outerChanges.added)
    /\ UNCHANGED <<postVars, queueVars, tasks>>

DbWatcherWake ==
    /\ WatcherWake
    /\ burst' = AfterStep(pending_files)
    /\ UNCHANGED <<postVars, queueVars, tasks>>

DbNext ==
    \/ Tick /\ Rest
    \/ \E p \in Paths, t \in {NoTime} \cup Times : DbAddFile(p, t)
    \/ \E p \in Paths : UserModify(p, FALSE) /\ Rest
    \/ DbStart
    \/ scheduler /\ Rest
    \/ DbWatcherOuter
    \/ WatcherInner /\ Rest
    \/ DbWatcherWake

SpecDebounce == Init /\ [][DbNext]_vars

\* ------------------------------------- the polling loop (src/xposter/cli.py)
\* `xposter run`: post_next every interval, on the same queue directory, with
\* no watch loop running.

\* scan_queue(paths["queue"]): the job files in queue/, each parsed.  An item
\* has an error when its file does not parse.
scan_queue(files) == {p \in Paths : exists(files[p])}

\* sort_ready_jobs(jobs): the valid jobs that are due at time t, by publish
\* time and then by path; a job without publish_at is due at once.
ReadyJobs(files, t) ==
    {p \in scan_queue(files) : /\ ~parse_job_file(files[p]).error
                               /\ parse_job_file(files[p]).job.publish_at <= t}

FirstReady(files, S) ==
    CHOOSE p \in S : \A q \in S :
        \/ files[p].publish_at < files[q].publish_at
        \/ files[p].publish_at = files[q].publish_at /\ p <= q

RECURSIVE SortReady(_, _)
SortReady(files, S) ==
    IF S = {} THEN << >>
    ELSE <<FirstReady(files, S)>> \o SortReady(files, S \ {FirstReady(files, S)})

sort_ready_jobs(files, t) == SortReady(files, ReadyJobs(files, t))

\* post_next up to `ready_jobs = sort_ready_jobs(jobs)`: every item with an
\* error is moved to failed/.
FailInvalid(m) ==
    [m EXCEPT
       !.file = [p \in Paths |->
                    IF exists(m.file[p]) /\ parse_job_file(m.file[p]).error
                    THEN move_with_result(m.file[p], "failed", "error") ELSE m.file[p]],
       !.res = [p \in Paths |->
                    IF exists(m.file[p]) /\ parse_job_file(m.file[p]).error
                    THEN "invalid" ELSE m.res[p]],
       !.seen = @ \cup {p \in Paths : exists(m.file[p]) /\ parse_job_file(m.file[p]).error}]

\* post_next at time t.  From the asset check on, its body repeats post_job
\* for the job ready_jobs[0].
post_next(m, out, t) ==
    LET ready_jobs == sort_ready_jobs(m.file, t)
    IN  IF ready_jobs = << >> THEN FailInvalid(m)
        ELSE post_job([FailInvalid(m) EXCEPT !.seen = @ \cup {ready_jobs[1]}],
                      ready_jobs[1], out, t)

\* run(): one turn of `while True`; an exception of post_next is printed.
run(out) ==
    /\ Commit(post_next(Machine, out, now), "poll", ReadyJobs(file, now))
    /\ UNCHANGED <<now, proc, wpc, pending_files, last_change_time, outerChanges,
                   innerChanges>>

PollNext ==
    \/ Tick /\ Rest
    \/ \E p \in Paths, t \in {NoTime} \cup Times, b \in BOOLEAN : UserAddFile(p, t, b) /\ Rest
    \/ \E p \in Paths, b \in BOOLEAN : UserModify(p, b) /\ Rest
    \/ \E out \in PostOutcomes : run(out) /\ Rest

SpecPoll == Init /\ [][PollNext]_vars

\* ------------------------------------------------ the token store alone
\* ensure_access_token called at any second, any number of times, on any
\* token file, the token endpoint answering anything.

AuthInit ==
    /\ LoopInit
    /\ burst = NoBurst
    /\ clock = 0
    /\ tokenFile \in TokenFiles
    /\ job = NoJob
    /\ ppc = "idle"
    /\ client = ""
    /\ media_ids = << >>
    /\ placed = InQueue
    /\ hist = NoHist
    /\ QueueIdle
    /\ tasks = NoTasks

AuthTick ==
    /\ clock < MaxClock
    /\ clock' = clock + 1
    /\ UNCHANGED <<loopVars, burst, tokenFile, job, ppc, client, media_ids, placed, hist>>

EnsureToken(r) ==
    /\ tokenFile' = ensure_access_token(tokenFile, clock, r).file
    /\ hist' = [hist EXCEPT !.auth = [called |-> TRUE, at |-> clock, before |-> tokenFile,
                                      resp |-> r,
                                      ret |-> ensure_access_token(tokenFile, clock, r)]]
    /\ UNCHANGED <<loopVars, burst, clock, job, ppc, client, media_ids, placed>>

AuthNext ==
    \/ AuthTick /\ UNCHANGED <<queueVars, tasks>>
    \/ \E r \in RefreshResults : EnsureToken(r) /\ UNCHANGED <<queueVars, tasks>>

SpecAuth == AuthInit /\ [][AuthNext]_vars

\* --------------------------------------------------- one post_job call
\* post_job called once for a parsed job, step by step: the asset check, the
\* token, one upload per image, create_tweet.  Time passes between the steps.

PostTokenFiles ==
    {tf \in TokenFiles :
        /\ tf.state # "corrupt"
        /\ tf.state = "ok" => /\ Has(tf.data, "access_token")
                              /\ Has(tf.data, "refresh_token")
                              /\ ~Has(tf.data, "expires_in")
                              /\ Has(tf.data, "expires_at") => tf.data.expires_at.valid}

PostRefreshResults ==
    {r \in RefreshResults :
        r.ok => Has(r.body, "access_token") /\ ~Has(r.body, "refresh_token")}

PostInit ==
    /\ LoopInit
    /\ burst = NoBurst
    /\ clock = 0
    /\ tokenFile \in PostTokenFiles
    /\ job \in Jobs
    /\ ppc = "validate"
    /\ client = ""
    /\ media_ids = << >>
    /\ placed = InQueue
    /\ hist = NoHist
    /\ QueueIdle
    /\ tasks = NoTasks

PostTick ==
    /\ ppc \in {"validate", "token", "upload"}
    /\ clock < MaxClock
    /\ clock' = clock + 1
    /\ UNCHANGED <<loopVars, burst, tokenFile, job, ppc, client, media_ids, placed, hist>>

\* post_job up to the return after the asset check.
PostAssets ==
    /\ ppc = "validate"
    /\ IF invalid_assets(job.asset_errors)
       THEN /\ placed' = Failed("asset validation failed", 0, "", job.asset_errors)
            /\ ppc' = "done"
       ELSE /\ ppc' = "token"
            /\ UNCHANGED placed
    /\ UNCHANGED <<loopVars, burst, clock, tokenFile, job, client, media_ids, hist>>

\* load_settings, ensure_access_token, XClient(...).  An exception of
\* ensure_access_token leaves post_job.
PostToken(r) ==
    /\ ppc = "token"
    /\ tokenFile' = ensure_access_token(tokenFile, clock, r).file
    /\ hist' = [hist EXCEPT !.auth = [called |-> TRUE, at |-> clock, before |-> tokenFile,
                                      resp |-> r,
                                      ret |-> ensure_access_token(tokenFile, clock, r)]]
    /\ client' = ensure_access_token(tokenFile, clock, r).access_token
    /\ ppc' = IF ensure_access_token(tokenFile, clock, r).ok THEN "upload" ELSE "raised"
    /\ UNCHANGED <<loopVars, burst, clock, job, media_ids, placed>>

\* `except XApiError as exc`: the job is moved to failed/ with the error.
CatchXApiError(message, status_code, payload) ==
    /\ placed' = Failed(message, status_code, payload, {})
    /\ ppc' = "done"

\* One turn of `for image_path in job.image_paths`.
PostUpload(u) ==
    /\ ppc = "upload"
    /\ Len(media_ids) < job.images
    /\ hist' = [hist EXCEPT !.uploads = Append(@, ApiCall(u, << >>))]
    /\ CASE u.kind = "no_type" ->
               /\ CatchXApiError("Unable to determine media type", 0, "")
               /\ UNCHANGED media_ids
         [] u.kind = "timeout" ->
               /\ ppc' = "raised"
               /\ UNCHANGED <<media_ids, placed>>
         [] u.kind = "http" /\ handle_response(u).raised ->
               /\ CatchXApiError("API error", handle_response(u).status_code,
                                 handle_response(u).payload)
               /\ UNCHANGED media_ids
         [] u.kind = "http" /\ ~handle_response(u).raised
                            /\ media_id(handle_response(u).json) = NoId ->
               /\ CatchXApiError("Upload response missing media_id", 0, "raw")
               /\ UNCHANGED media_ids
         [] u.kind = "http" /\ ~handle_response(u).raised
                            /\ media_id(handle_response(u).json) # NoId ->
               /\ media_ids' = Append(media_ids, media_id(handle_response(u).json))
               /\ UNCHANGED <<ppc, placed>>
    /\ UNCHANGED <<loopVars, burst, clock, tokenFile, job, client>>

\* create_tweet and what follows it.
PostTweet(u) ==
    /\ ppc = "upload"
    /\ Len(media_ids) = job.images
    /\ IF ~job.text /\ media_ids = << >>
       THEN /\ CatchXApiError("Tweet must include text or media", 0, "")
            /\ UNCHANGED hist
       ELSE /\ hist' = [hist EXCEPT !.tweets = Append(@, ApiCall(u, media_ids))]
            /\ CASE u.kind = "timeout" ->
                       /\ ppc' = "raised"
                       /\ UNCHANGED placed
                 [] u.kind = "http" /\ handle_response(u).raised ->
                       CatchXApiError("API error", handle_response(u).status_code,
                                      handle_response(u).payload)
                 [] u.kind = "http" /\ ~handle_response(u).raised ->
                       /\ placed' = Sent
                       /\ ppc' = "done"
    /\ UNCHANGED <<loopVars, burst, clock, tokenFile, job, client, media_ids>>

PostNext ==
    \/ PostTick /\ UNCHANGED <<queueVars, tasks>>
    \/ PostAssets /\ UNCHANGED <<queueVars, tasks>>
    \/ \E r \in PostRefreshResults : PostToken(r) /\ UNCHANGED <<queueVars, tasks>>
    \/ \E u \in UploadOutcomes(Len(media_ids) + 1) : PostUpload(u) /\ UNCHANGED <<queueVars, tasks>>
    \/ \E u \in TweetOutcomes : PostTweet(u) /\ UNCHANGED <<queueVars, tasks>>

SpecPost == PostInit /\ [][PostNext]_vars

\* ------------------------------------------- cycles over the post folders
\* The folder layout: a cycle scans data/queue, takes the due jobs and
\* hands each, with the status of its publication, to move_post.  At most
\* one post folder is drawn from all contents, the others are well-formed.

QueueInit ==
    /\ LoopInit
    /\ burst = NoBurst
    /\ PostIdle
    /\ folders \in {fs \in [Folders -> {Post(e) : e \in Entries \cup GoodEntries}] :
                       \A i, k \in Folders :
                           fs[i].entry \notin GoodEntries /\ fs[k].entry \notin GoodEntries
                               => i = k}
    /\ scanned = NoScan
    /\ due = << >>
    /\ qpc = QIdle
    /\ tasks = NoTasks

\* scan_queue and get_due_jobs at time t; an exception of the scan ends the
\* cycle and the process.
ScanCycle(t) ==
    /\ qpc.at = "idle"
    /\ scanned' = scan_queue_dir(folders)
    /\ due' = get_due_jobs(scanned'.jobs, t)
    /\ qpc' = [QIdle EXCEPT !.at = IF scanned'.raised THEN "raised" ELSE "loop"]
    /\ UNCHANGED folders

\* move_post up to and including shutil.move(job.folder, dest).
MoveFolder(status, error_msg) ==
    /\ qpc.at = "loop"
    /\ due # << >>
    /\ folders' = [folders EXCEPT ![Head(due).folder].loc = status]
    /\ due' = Tail(due)
    /\ qpc' = [at |-> "moved", folder |-> Head(due).folder, status |-> status,
               error_msg |-> error_msg]
    /\ UNCHANGED scanned

\* move_post after the move: error.txt for a failed job with a message.
WriteError ==
    /\ qpc.at = "moved"
    /\ folders' = [folders EXCEPT ![qpc.folder].error_txt =
                                      (qpc.status = "failed" /\ qpc.error_msg)]
    /\ qpc' = [QIdle EXCEPT !.at = "loop"]
    /\ UNCHANGED <<scanned, due>>

\* All due jobs are handled.
EndCycle ==
    /\ qpc.at = "loop"
    /\ due = << >>
    /\ qpc' = QIdle
    /\ UNCHANGED <<folders, scanned, due>>

\* The process is stopped inside a cycle; the next cycle starts from the
\* directory as it is.
QueueStop ==
    /\ qpc.at \in {"loop", "moved"}
    /\ qpc' = QIdle
    /\ due' = << >>
    /\ UNCHANGED <<folders, scanned>>

QueueNext ==
    \/ \E t \in Times : ScanCycle(t) /\ UNCHANGED <<loopVars, burst, postVars, tasks>>
    \/ MoveFolder("sent", FALSE) /\ UNCHANGED <<loopVars, burst, postVars, tasks>>
    \/ MoveFolder("failed", TRUE) /\ UNCHANGED <<loopVars, burst, postVars, tasks>>
    \/ WriteError /\ UNCHANGED <<loopVars, burst, postVars, tasks>>
    \/ EndCycle /\ UNCHANGED <<loopVars, burst, postVars, tasks>>
    \/ QueueStop /\ UNCHANGED <<loopVars, burst, postVars, tasks>>

SpecQueue == QueueInit /\ [][QueueNext]_vars

\* --------------------------------------------- the two tasks, step by step

TaskRest ==
    UNCHANGED <<now, file, proc, wpc, pending_files, last_change_time, outerChanges,
                innerChanges, tweets, early, seen, last, burst, postVars, queueVars>>

\* scheduler: wait_seconds <= 0 at time t; pop_ready_jobs has loaded the
\* schedule.
PopLoad(t) ==
    /\ Runs("scheduler")
    /\ tasks.pc["scheduler"] = "await"
    /\ next_scheduled_time(scheduleFile) # NoTime
    /\ next_scheduled_time(scheduleFile) - t <= 0
    /\ tasks' = Moved([tasks EXCEPT !.entries["scheduler"] = scheduleFile,
                                    !.t["scheduler"] = t],
                      "scheduler", "pop_loaded")
    /\ UNCHANGED scheduleFile

\* pop_ready_jobs saves the remaining entries and returns the ready paths.
PopSave ==
    /\ Runs("scheduler")
    /\ tasks.pc["scheduler"] = "pop_loaded"
    /\ LET r == pop_ready_jobs(tasks.entries["scheduler"], tasks.t["scheduler"])
       IN  /\ scheduleFile' = r.file
           /\ tasks' = Moved([tasks EXCEPT
                                 !.ready = r.ready,
                                 !.sequential = pop_ready_jobs(@, tasks.t["scheduler"]).file],
                             "scheduler", "ready")

\* process_scheduled calls post_job for the next ready path.
ScheduledPost ==
    /\ Runs("scheduler")
    /\ tasks.pc["scheduler"] = "ready"
    /\ tasks.ready # << >>
    /\ tasks' = Moved([tasks EXCEPT !.path["scheduler"] = Head(tasks.ready),
                                    !.ready = Tail(tasks.ready)],
                      "scheduler", "post")
    /\ UNCHANGED scheduleFile

\* process_scheduled returns; the scheduler goes on to its next sleep.
ScheduledDone ==
    /\ Runs("scheduler")
    /\ tasks.pc["scheduler"] = "ready"
    /\ tasks.ready = << >>
    /\ tasks' = Moved(tasks, "scheduler", "await")
    /\ UNCHANGED scheduleFile

\* post_job returns to the handler that called it.
PostReturn(T) ==
    /\ Runs(T)
    /\ tasks.pc[T] = "post"
    /\ tasks' = Moved([tasks EXCEPT !.path[T] = 0], T,
                      IF T = "scheduler" THEN "ready" ELSE "await")
    /\ UNCHANGED scheduleFile

\* watcher: process_new_file for a job to publish now calls post_job.
NewFilePost(p) ==
    /\ Runs("watcher")
    /\ tasks.pc["watcher"] = "await"
    /\ tasks' = Moved([tasks EXCEPT !.path["watcher"] = p], "watcher", "post")
    /\ UNCHANGED scheduleFile

\* watcher: process_new_file for a job due at t, later than now;
\* add_to_schedule has loaded the schedule.
AddLoad(p, t) ==
    /\ Runs("watcher")
    /\ tasks.pc["watcher"] = "await"
    /\ tasks' = Moved([tasks EXCEPT !.entries["watcher"] = scheduleFile,
                                    !.path["watcher"] = p,
                                    !.t["watcher"] = t],
                      "watcher", "add_loaded")
    /\ UNCHANGED scheduleFile

\* add_to_schedule saves the entries with the one of the job.
AddSave ==
    /\ Runs("watcher")
    /\ tasks.pc["watcher"] = "add_loaded"
    /\ scheduleFile' = add_to_schedule(tasks.entries["watcher"], tasks.path["watcher"],
                                       tasks.t["watcher"])
    /\ tasks' = Moved([tasks EXCEPT
                          !.path["watcher"] = 0,
                          !.sequential = add_to_schedule(@, tasks.path["watcher"],
                                                         tasks.t["watcher"])],
                      "watcher", "await")

TasksNext ==
    \/ \E t \in Times : PopLoad(t) /\ TaskRest
    \/ PopSave /\ TaskRest
    \/ ScheduledPost /\ TaskRest
    \/ ScheduledDone /\ TaskRest
    \/ \E T \in Tasks : PostReturn(T) /\ TaskRest
    \/ \E p \in Paths : NewFilePost(p) /\ TaskRest
    \/ \E p \in Paths, t \in Times : AddLoad(p, t) /\ TaskRest
    \/ AddSave /\ TaskRest

SpecTasks == Init /\ [][TasksNext]_vars

\* ------------------------------------------------------------- claims

InSchedule(p) == \E i \in 1..Len(scheduleFile) : scheduleFile[i].path = p

ScheduledFor(sf, p, t) ==
    \E i \in 1..Len(sf) : sf[i] = [path |-> p, publish_at |-> [iso |-> t]]

Finalized(p) == file[p].loc \in {"sent", "failed"}

\* A job first processed while its publish_at is in the future is in the
\* schedule, with that time, when the handler returns.
C1_PlacedWhenFirstProcessed ==
    \A p \in Paths :
        (p \notin seen /\ p \in seen' /\ ~file[p].broken /\ file[p].publish_at > now)
            => ScheduledFor(scheduleFile', p, file[p].publish_at)

\* C1: a job whose publish_at is later than the current time when it is
\* first processed is placed in the schedule with that time, and no job is
\* ever handed to post_job at a time earlier than its publish_at.
C1_FutureJobNeverEarly ==
    [](early = {}) /\ [][C1_PlacedWhenFirstProcessed]_vars

\* A job that waited in the schedule was published by the scheduler.
C1_Witness ==
    \E p \in Paths : /\ last.op = "scheduler"
                     /\ last.res[p] = "sent"
                     /\ file[p].publish_at > 1

\* A job under sent/ or failed/ stays as it is and is not published again.
C2_TerminalStays ==
    \A p \in Paths : Finalized(p) => /\ file'[p] = file[p]
                                     /\ tweets'[p] = tweets[p]

Tracked(p) ==
    \/ InSchedule(p)
    \/ p \in pending_files
    \/ p \in outerChanges.added
    \/ p \in innerChanges.added

\* C3: while the loop runs, every job it has seen is still tracked (in the
\* schedule, in the watcher's pending set or collected changes) or is
\* finalized under sent/ or failed/ with a result record.
C3_NeverDropped ==
    proc = "running" =>
        \A p \in seen : Tracked(p) \/ (Finalized(p) /\ file[p].result # "none")

\* C4: a due scheduled job whose publish attempt hits an auth failure is
\* still unfinalized and still in the schedule afterwards.
C4_AuthFailureKeepsScheduled ==
    \A p \in Paths :
        (last.op = "scheduler" /\ last.res[p] = "auth_err")
            => exists(file[p]) /\ InSchedule(p)

\* C5: after an error in one job handled by the scheduler or the watcher
\* task, the tasks are still running and every other job of the same batch
\* was handled or is still scheduled.
C5_ErrorKeepsLoopRunning ==
    (last.op \in {"scheduler", "watcher"}
        /\ \E p \in Paths : last.res[p] = "auth_err")
        => /\ proc # "crashed"
           /\ \A q \in last.batch : last.res[q] # "none" \/ InSchedule(q)

\* C6: the persisted schedule holds at most one entry per path, and after
\* add_to_schedule the path's only entry carries the new publish_at.
C6_OneEntryPerPath ==
    /\ \A i, j \in 1..Len(scheduleFile) :
          scheduleFile[i].path = scheduleFile[j].path => i = j
    /\ last.op = "add" =>
          \A i \in 1..Len(scheduleFile) :
              scheduleFile[i].path = last.path
                  => scheduleFile[i].publish_at = [iso |-> last.at]
    /\ last.op = "add" => InSchedule(last.path)

\* add_to_schedule replaced the entry of a path that was already scheduled
\* for another time.
C6_Witness ==
    /\ last.op = "add"
    /\ \E i \in 1..Len(last.before) :
          /\ last.before[i].path = last.path
          /\ last.before[i].publish_at # [iso |-> last.at]

\* C7: the persisted schedule is sorted ascending by publish_at, and
\* next_scheduled_time is its minimum publish_at (none when it is empty).
C7_SortedAndMinFirst ==
    /\ \A i, j \in 1..Len(scheduleFile) :
          i < j => scheduleFile[i].publish_at.iso <= scheduleFile[j].publish_at.iso
    /\ scheduleFile = << >> => next_scheduled_time(scheduleFile) = NoTime
    /\ scheduleFile # << >> =>
          /\ \E i \in 1..Len(scheduleFile) :
                next_scheduled_time(scheduleFile) = scheduleFile[i].publish_at.iso
          /\ \A i \in 1..Len(scheduleFile) :
                next_scheduled_time(scheduleFile) <= scheduleFile[i].publish_at.iso

\* add_to_schedule appended an entry earlier than the one in the file, and
\* the save put it first.
C7_Witness ==
    /\ last.op = "add"
    /\ Len(scheduleFile) = 2
    /\ Len(last.before) = 1
    /\ scheduleFile[1].path = last.path
    /\ scheduleFile[1].publish_at.iso < scheduleFile[2].publish_at.iso

\* C8: entries with equal publish_at stand in ascending path order, in the
\* persisted schedule and in the list pop_ready_jobs returns.
C8_TiesByPath ==
    /\ \A i, j \in 1..Len(scheduleFile) :
          (i < j /\ scheduleFile[i].publish_at = scheduleFile[j].publish_at)
              => scheduleFile[i].path < scheduleFile[j].path
    /\ last.op = "pop" =>
          \A i, j \in 1..Len(last.ready) :
              (i < j /\ \E t \in Times : /\ ScheduledFor(last.before, last.ready[i], t)
                                        /\ ScheduledFor(last.before, last.ready[j], t))
                  => last.ready[i] < last.ready[j]

\* C9: pop_ready_jobs at time now returns the paths of the entries with
\* publish_at <= now, in file order, and leaves exactly the entries with
\* publish_at > now, unaltered.
C9_PopPartitions ==
    last.op = "pop" =>
        LET isReady(d) == d.publish_at.iso <= last.at
            isLater(d) == d.publish_at.iso > last.at
            readyDicts == SelectSeq(last.before, isReady)
        IN  /\ Len(last.ready) = Len(readyDicts)
            /\ \A i \in 1..Len(readyDicts) : last.ready[i] = readyDicts[i].path
            /\ scheduleFile = SelectSeq(last.before, isLater)
            /\ Len(last.ready) + Len(scheduleFile) = Len(last.before)

\* A pop that returned one entry and left the other.
C9_Witness ==
    /\ last.op = "pop"
    /\ Len(last.ready) = 1
    /\ Len(scheduleFile) = 1

C11_CycleFinalizesAllReady ==
    (last.op = "poll" /\ \A p \in Paths : last.res[p] # "auth_err")
        => \A p \in last.batch : Finalized(p)

\* ---------------------------------------------- claims on the token store

\* The last ensure_access_token call: the token set it loaded, and the
\* seconds that set had left until its expires_at when the call was made.
Loaded == load_tokens(hist.auth.before)

Dated == Has(Loaded, "expires_at") /\ Loaded.expires_at.valid

Left == Loaded.expires_at.at - hist.auth.at

\* C12: a token set with 60 seconds or less left until expires_at is
\* refreshed before ensure_access_token returns a token (the refresh call is
\* made whenever the set holds a refresh_token), and a set with 61 seconds or
\* more left is returned as it is, with no refresh call and no write to the
\* token file.
C12_RefreshAtSkew ==
    (hist.auth.called /\ Dated) =>
        /\ (Left <= 60 /\ hist.auth.ret.ok) => hist.auth.ret.refreshed
        /\ (Left <= 60 /\ Has(Loaded, "refresh_token")) => hist.auth.ret.refreshed
        /\ hist.auth.ret.refreshed => Left <= 60
        /\ Left >= 61 => /\ ~hist.auth.ret.refreshed
                         /\ ~hist.auth.ret.wrote
                         /\ hist.auth.ret.file = hist.auth.before
                         /\ Has(Loaded, "access_token") =>
                                /\ hist.auth.ret.ok
                                /\ hist.auth.ret.access_token = Loaded.access_token

\* A token with exactly 60 seconds left was refreshed and the new one returned.
C12_Witness ==
    /\ hist.auth.called
    /\ Dated
    /\ Left = 60
    /\ hist.auth.ret.ok
    /\ hist.auth.ret.refreshed
    /\ hist.auth.ret.access_token = "A2"

\* The failure cases of the last ensure_access_token call, from its inputs.
CaseNoTokens == DOMAIN Loaded = {}

CaseExpired == DOMAIN Loaded # {} /\ Dated /\ Left <= 60

CaseNoRefreshToken == CaseExpired /\ ~Has(Loaded, "refresh_token")

CaseRefreshFailed ==
    CaseExpired /\ Has(Loaded, "refresh_token") /\ ~hist.auth.resp.ok

CaseNoAccessToken ==
    /\ DOMAIN Loaded # {}
    /\ ~Has(Loaded, "access_token")
    /\ \/ ~CaseExpired
       \/ /\ Has(Loaded, "refresh_token")
          /\ hist.auth.resp.ok
          /\ ~Has(hist.auth.resp.body, "access_token")

\* C14: ensure_access_token fails exactly when there is no token content,
\* when the token is expired and there is no refresh_token, or when the
\* refresh call fails; a failing call returns no access token and leaves the
\* token file as it was.
C14_FailsInThreeCases ==
    hist.auth.called =>
        /\ ~hist.auth.ret.ok <=> (CaseNoTokens \/ CaseNoRefreshToken \/ CaseRefreshFailed)
        /\ ~hist.auth.ret.ok => /\ hist.auth.ret.access_token = ""
                                /\ hist.auth.ret.file = hist.auth.before

\* C14 (amended): ensure_access_token fails exactly in four cases: no token
\* content, token expired with no refresh_token, refresh call failed, and the
\* token set (after a refresh, if one was made) holding no access_token.  A
\* failing call returns no access token; in the first three cases the token
\* file is left as it was, and in the fourth it is changed only by a refresh
\* that succeeded before the failure.
C14_FailsInFourCases ==
    hist.auth.called =>
        /\ ~hist.auth.ret.ok <=> \/ CaseNoTokens
                                 \/ CaseNoRefreshToken
                                 \/ CaseRefreshFailed
                                 \/ CaseNoAccessToken
        /\ ~hist.auth.ret.ok => hist.auth.ret.access_token = ""
        /\ (CaseNoTokens \/ CaseNoRefreshToken \/ CaseRefreshFailed)
               => hist.auth.ret.file = hist.auth.before
        /\ (~hist.auth.ret.ok /\ hist.auth.ret.file # hist.auth.before)
               => CaseNoAccessToken /\ CaseExpired /\ hist.auth.resp.ok

\* A refresh succeeded and was written, and the call failed for want of an
\* access_token.
C14_Witness ==
    /\ hist.auth.called
    /\ ~hist.auth.ret.ok
    /\ hist.auth.ret.error = "no_access_token"
    /\ hist.auth.ret.file # hist.auth.before

\* The token set the last call left in the token file.
Persisted == hist.auth.ret.file.data

RefreshSucceeded == hist.auth.called /\ hist.auth.ret.refreshed /\ hist.auth.resp.ok

Requests ==
    SelectSeq(hist.uploads, LAMBDA c : c.u.kind \in {"timeout", "http"}) \o hist.tweets

\* C13: no upload and no create-post request is sent with an access token
\* that has 60 seconds or less left until its expires_at when the request is
\* sent.
C13_NoRequestNearExpiry ==
    \A i \in 1..Len(Requests) : Requests[i].dated => Requests[i].left > 60

\* The identifier an upload response carries: media_id, else
\* media_id_string, else data.id.
Identifier(body) ==
    IF "media_id" \in DOMAIN body THEN body.media_id
    ELSE IF "media_id_string" \in DOMAIN body THEN body.media_id_string
    ELSE IF "data" \in DOMAIN body /\ "id" \in DOMAIN body.data THEN body.data.id
    ELSE NoId

\* An upload that succeeded: a 2xx response that carries an identifier.
Uploaded(c) ==
    /\ c.u.kind = "http"
    /\ c.u.status \in 200..299
    /\ Identifier(c.u.body) # NoId

\* C18: create_tweet is invoked only after every image of the job, in
\* order, was uploaded successfully and yielded an identifier, and it
\* receives exactly those identifiers in image order; if an upload fails or
\* yields no identifier, create_tweet is never invoked and the job is
\* finalized as failed.
C18_AllOrNothing ==
    /\ hist.tweets # << >> =>
          /\ Len(hist.uploads) = job.images
          /\ \A i \in 1..Len(hist.uploads) : Uploaded(hist.uploads[i])
          /\ hist.tweets[1].ids =
                 [i \in 1..Len(hist.uploads) |-> Identifier(hist.uploads[i].u.body)]
    /\ (\E i \in 1..Len(hist.uploads) : ~Uploaded(hist.uploads[i])) =>
          /\ hist.tweets = << >>
          /\ placed.dir = "failed"
          /\ placed.status = "error"

\* C19: a job with an asset error is moved to failed/ with the whole error
\* list, and post_job returns before any token access, upload or create-post
\* call.
C19_AssetErrorsNeverPublished ==
    job.asset_errors # {} =>
        /\ ~hist.auth.called
        /\ client = ""
        /\ hist.uploads = << >>
        /\ hist.tweets = << >>
        /\ ppc # "validate" =>
              /\ ppc = "done"
              /\ placed = Failed("asset validation failed", 0, "", job.asset_errors)

\* A job with two asset errors was moved to failed/ with both.
C19_Witness ==
    /\ job.asset_errors = AssetErrors
    /\ ppc = "done"
    /\ placed.dir = "failed"
    /\ placed.details = AssetErrors

\* C20: when an upload or the create-post request gets a non-2xx response,
\* the job is moved to failed/ with an error result that carries the status
\* code and the raw payload, and post_job sends no further request for it.
C20_Non2xxFailsOnce ==
    \A i \in 1..Len(Requests) :
        (Requests[i].u.kind = "http" /\ Requests[i].u.status \notin 200..299) =>
            /\ i = Len(Requests)
            /\ placed.dir = "failed"
            /\ placed.status = "error"
            /\ placed.status_code = Requests[i].u.status
            /\ placed.payload = "raw"

\* C21: a request of post_job that times out (an upload or create-post) is
\* handled as the outcome of the job: post_job ends with the job finalized as
\* failed, and the exception does not leave post_job.
C21_TimeoutIsOutcome ==
    \A i \in 1..Len(Requests) :
        Requests[i].u.kind = "timeout" =>
            /\ ppc = "done"
            /\ placed.dir = "failed"
            /\ placed.status = "error"

\* ------------------------------------------------- claims on restarts

\* A startup that brings the loop to running: every job that was in the
\* queue directory is in the schedule with its publish time when that time
\* is ahead, and was handed to post_job and finalized otherwise.
C22_StartupStep ==
    (proc # "running" /\ proc' = "running") =>
        \A p \in Paths :
            (exists(file[p]) /\ ~parse_job_file(file[p]).error) =>
                IF file[p].publish_at > now
                THEN /\ exists(file'[p])
                     /\ ScheduledFor(scheduleFile', p, file[p].publish_at)
                ELSE /\ last'.res[p] \in {"sent", "asset_err", "upload_err", "tweet_err"}
                     /\ file'[p].loc \in {"sent", "failed"}

\* C22: after a stop or a kill of the process at any point and a restart,
\* no scheduled job is lost: after the startup every job that was in the
\* schedule or in the queue directory is in the schedule again with its
\* publish time, or was published at once because its time has passed, also
\* when the schedule file cannot be loaded.
C22_NoJobLostAcrossRestart == [][C22_StartupStep]_vars

\* The loop was started on a schedule file that cannot be loaded, and a job
\* whose time had passed was published by the startup.
C22_Witness ==
    /\ proc = "running"
    /\ last.op = "startup"
    /\ ~Loadable(scheduleFile)
    /\ \E p \in Paths : last.res[p] = "sent" /\ file[p].publish_at # NoTime

\* ------------------------------------------------- claims on the folder layout

\* The contents of a post folder that make it malformed: no post.json,
\* invalid JSON, JSON that is not an object, a field of the wrong type,
\* empty or invalid labels, a bad time string.
Malformed(e) ==
    \/ e.kind \in {"no_post_json", "invalid_json", "not_object"}
    \/ /\ e.kind = "object"
       /\ \/ e.text.type # "str"
          \/ e.labels.type # "list"
          \/ e.labels.items = << >>
          \/ e.labels.items[1] \notin VALID_SLOTS
          \/ e.publish_at.kind = "bad"

InJobs(r, i) == \E k \in 1..Len(r.jobs) : r.jobs[k].folder = i
InErrors(r, i) == \E k \in 1..Len(r.errors) : r.errors[k].path = i

\* C23: scan_queue does not raise because of one malformed post folder: the
\* folder is reported as a (path, error) pair and is not among the jobs, and
\* every other post folder of the queue is classified as a job or an error.
C23_MalformedEntryReported ==
    qpc.at # "idle" =>
        /\ ~scanned.raised
        /\ \A i \in Folders :
              folders[i].loc = "queue" =>
                  /\ InJobs(scanned, i) # InErrors(scanned, i)
                  /\ Malformed(folders[i].entry) => InErrors(scanned, i)

\* The job scan_queue builds from a post folder that is an object.
JobOf(i) ==
    PostJob(i, folders[i].entry.text, folders[i].entry.labels,
            discover_images(folders[i].entry.files), NoTime)

IsObject(i) ==
    /\ folders[i].entry.kind = "object"
    /\ folders[i].entry.text.type = "str"
    /\ folders[i].entry.labels.type = "list"

TextError(errs) == \E k \in 1..Len(errs) : errs[k] = "text"
ImagesError(errs) == \E k \in 1..Len(errs) : errs[k] = "images"

\* The jobs given to the publisher: the due jobs of the cycle, and the one
\* move_post is finalizing.
Handed(i) ==
    \/ \E k \in 1..Len(due) : due[k].folder = i
    \/ folders[i].loc # "queue"

\* C24: a job whose text is longer than 280 characters is rejected with a
\* validation error, is not among the jobs the scan returns and never
\* reaches the publisher; a text of exactly 280 characters is accepted.
C24_TextLimit ==
    \A i \in Folders :
        IsObject(i) =>
            /\ folders[i].entry.text.len > 280 =>
                  /\ TextError(validate(JobOf(i)))
                  /\ ~InJobs(scanned, i)
                  /\ ~Handed(i)
            /\ folders[i].entry.text.len = 280 =>
                  /\ ~TextError(validate(JobOf(i)))
                  /\ (qpc.at = "loop" /\ folders[i].loc = "queue" /\ ~Malformed(folders[i].entry)
                        /\ Cardinality(discover_images(folders[i].entry.files)) <= MAX_IMAGES)
                      => InJobs(scanned, i)

\* A scan returned a job with a text of 280 characters and reported the
\* text of 281 characters of another post folder.
C24_Witness ==
    /\ qpc.at = "loop"
    /\ \E i \in Folders :
          IsObject(i) /\ folders[i].entry.text.len = 280 /\ InJobs(scanned, i)
    /\ \E i \in Folders, k \in 1..Len(scanned.errors) :
          /\ IsObject(i) /\ folders[i].entry.text.len = 281
          /\ scanned.errors[k] = [path |-> i, error |-> "text"]

NumImagesOf(i) == Cardinality(discover_images(folders[i].entry.files))

HasRecord(i) == folders[i].error_txt

\* C28: whenever a scan or a restart can look at the data directory, also
\* after a stop between the steps of move_post, a post folder that is no
\* longer in queue/ has a result or error record in its terminal location,
\* in sent/ as well as in failed/.
C28_FinalizedWithRecord ==
    qpc.at = "idle" =>
        \A i \in Folders : folders[i].loc # "queue" => HasRecord(i)

\* ------------------------------------------------- claims on the two tasks

\* Task T is inside post_job.
InPostJob(T) == tasks.pc[T] = "post"

\* C26: jobs are published one at a time: in no reachable state are two
\* executions of post_job, by the scheduler task and the watcher task, in
\* progress at once, for the same job or for different jobs.
C26_OnePostJobAtATime ==
    ~(InPostJob("scheduler") /\ InPostJob("watcher"))

\* The scheduler holds the thread inside post_job, for a path it popped,
\* while the watcher is suspended with a file it could publish.
C26_Witness ==
    /\ InPostJob("scheduler")
    /\ tasks.pc["watcher"] = "await"
    /\ tasks.running = "scheduler"

\* Task T is between the load and the save of a schedule update.
InUpdate(T) == tasks.pc[T] \in {"add_loaded", "pop_loaded"}

\* C29: the schedule updates of the watcher task (add_to_schedule) and of
\* the scheduler task (pop_ready_jobs) do not lose each other's writes: a
\* load-modify-save runs without the other task running in between, and
\* the persisted schedule is the result of applying the operations one
\* after the other.
C29_UpdatesAreSequential ==
    /\ scheduleFile = tasks.sequential
    /\ \A T \in Tasks :
          InUpdate(T) => /\ tasks.entries[T] = scheduleFile
                         /\ \A U \in Tasks \ {T} : tasks.pc[U] \in AwaitPoints

\* Both tasks have updated the schedule: the watcher is adding an entry to
\* a schedule the scheduler has popped from.
C29_Witness ==
    /\ tasks.pc["watcher"] = "add_loaded"
    /\ tasks.t["scheduler"] # NoTime
    /\ scheduleFile # << >>

\* ------------------------------------------------- claims on the debounce

\* The watcher task can take a step by itself: an awatch has changes to
\* yield, or its one-second sleep is running out.
WatcherCanStep == ENABLED (WatcherOuter \/ WatcherInner \/ WatcherWake)

\* C17: once job files are pending and debounce_seconds have passed since
\* the last of their events, the watcher goes on to process them by itself:
\* it is not left waiting for another filesystem change.
C17_TimerAloneLeadsToProcessing ==
    (proc = "running" /\ pending_files # {}
        /\ now - last_change_time >= debounce_seconds)
        => WatcherCanStep

\* C16: the watcher starts no pass over the pending files sooner than
\* debounce_seconds after the last job-file event, and a burst of events
\* leads to one pass in which each of its files is handled once.
C16_DebouncedOnePass ==
    /\ ~burst.tooSoon
    /\ \A p \in Paths : burst.passes[p] <= 1

\* A step in which the watcher, debouncing with files pending, takes a
\* batch of changes from the inner awatch: the timer restarts from now.
C27_EventStep ==
    (proc = "running" /\ wpc = "inner" /\ pending_files # {}
        /\ innerChanges # NoChanges /\ wpc' = "sleep")
      => last_change_time' = now

\* C27: every relevant filesystem event in the debounce window, also the
\* modification of a queued job file or the arrival of one of its images,
\* restarts the debounce timer, so that processing is postponed to
\* debounce_seconds after that event.
C27_EveryEventRestartsTimer == [][C27_EventStep]_vars

\* ------------------------------------- claims on tokens without an expiry

\* The token set the last call loaded has tokens and no usable expires_at:
\* the field is missing, or it is a string fromisoformat rejects.
Undated == DOMAIN Loaded # {} /\ ~Dated

\* C30: a persisted token set whose expires_at is missing or unparsable is
\* treated as not expired: whenever ensure_access_token is called it makes
\* no refresh call, leaves the token file as it is and returns the access
\* token of the set.
C30_UndatedNeverRefreshed ==
    (hist.auth.called /\ Undated) =>
        /\ ~hist.auth.ret.refreshed
        /\ ~hist.auth.ret.wrote
        /\ hist.auth.ret.file = hist.auth.before
        /\ tokenFile = hist.auth.before
        /\ Has(Loaded, "access_token") =>
               /\ hist.auth.ret.ok
               /\ hist.auth.ret.access_token = Loaded.access_token

\* A set with a refresh token and an unparsable expires_at was returned as
\* it is, at a later time.
C30_Witness ==
    /\ hist.auth.called
    /\ Has(Loaded, "expires_at") /\ ~Loaded.expires_at.valid
    /\ Has(Loaded, "refresh_token")
    /\ hist.auth.at > 0
    /\ hist.auth.ret.ok
    /\ hist.auth.ret.access_token = "A1"

====
